---- MODULE Spec2Model ----
(***************************************************************************)
(* Model of the background synchronization jobs of laudspeaker:            *)
(*   - CronService.handleClickHouseCron (app.cron.service.ts): the pull    *)
(*     of provider events into the message_status sink and the drain of    *)
(*     the sendgrid staging table;                                         *)
(*   - IntegrationsProcessor.handleDatabaseSync: the frequency-gated       *)
(*     warehouse sync of one integration.                                  *)
(* Every await of the handlers is a step of its own, so that runs and      *)
(* tasks interleave where the event loop lets them.                        *)
(***************************************************************************)
EXTENDS Integers, Sequences, FiniteSets, TLC

(***************************************************************************)
(* Bounds of the model.                                                    *)
(***************************************************************************)
\* BATCH_SIZE is 500 in the source (app.cron.service.ts:63); the model
\* scales it down so that several batches of accounts and of staging rows
\* occur within the bounds below.
BATCH_SIZE == 2
\* accounts holding a mailgunAPIKey
NumAccounts == 3
\* rows the webhook handler left in the sendgrid staging table
MaxStaging == 5
\* executions of handleClickHouseCron
MaxRuns == 2
\* items per page of the provider's events API
PageSize == 2
\* minutes, Date.prototype.getTimezoneOffset() of the server
TimezoneOffset == 60
\* throws (or process deaths) that occur in one behaviour
MaxFailures == 2
\* jobs of the 'db' queue
MaxTasks == 2
\* largest frequencyNumber of a Database row
MaxFrequencyNumber == 1

Runs == 1..MaxRuns
Accounts == 1..NumAccounts

Min(a, b) == IF a < b THEN a ELSE b

\* NaN of a JavaScript number (timestamps are never negative)
NaN == -1

\* truthiness of a JavaScript number
TruthyNumber(x) == x # NaN /\ x # 0

\* truthiness of a JavaScript string ("" stands for absent, too)
Truthy(s) == s # ""

VARIABLES
  \* ---- stores shared by the runs of handleClickHouseCron
  sink,          \* logical rows of message_status (after ReplacingMergeTree's merge)
  staging,       \* ids of the rows of the sendgrid staging table
  items,         \* provider events of each account, in the provider's order
  filtersBegin,  \* the provider is the service (TRUE) or a stub that ignores begin
  \* ---- locals of each run
  run,
  \* ---- observations of each run (history only)
  obs,
  seeded,        \* staging rows present before the first run
  sink0,         \* sink before the first run
  failures,      \* throws that occurred so far
  \* ---- the warehouse sync (handleDatabaseSync)
  clock,         \* the time new Date() reads
  database,      \* the Database row of the integration
  database0,     \* the row as it was configured
  task,          \* the queued 'db' jobs: position, payload and what each did
  \* ---- the connector (handleDatabricksSync)
  customers,     \* the CustomerRecords of the customer store, in their order
  conn,          \* the connector call of each job: position, resources, result set
  \* ---- the schema discovery (handleCustomerKeysCron)
  docs,          \* the Customer documents, in the order find() returns them
  keyStore,      \* the CustomerKeys documents
  kjob           \* the runs of handleCustomerKeysCron: position and locals

cronVars == <<sink, staging, items, filtersBegin, run, obs, seeded, sink0, failures>>

syncVars == <<clock, database, database0, task>>

warehouseVars == <<customers, conn>>

keysVars == <<docs, keyStore, kjob>>

(***************************************************************************)
(* Provider events (mailgun items) and sink rows                           *)
(***************************************************************************)
Item(ts, aud, cust, msg, ev) ==
  [timestamp |-> ts, audienceId |-> aud, customerId |-> cust,
   messageId |-> msg, event |-> ev]

\* Event lists a provider account may hold. An empty identifier is an event
\* whose user-variables lack it.
EventLists ==
  << \* ascending, second event lacks customerId
     << Item(1, "a1", "c1", "m1", "delivered"),
        Item(2, "a1", "",   "m1", "opened"),
        Item(3, "a1", "c1", "m1", "opened") >>,
     \* a stub whose pages descend in time; one event lacks audienceId
     << Item(5, "a1", "c2", "m2", "delivered"),
        Item(4, "",   "c2", "m2", "opened"),
        Item(3, "a1", "c2", "m2", "opened"),
        Item(2, "a1", "c2", "m2", "clicked"),
        Item(1, "a1", "c2", "m2", "accepted") >>,
     \* no events
     << >>,
     \* the same key twice, at different times
     << Item(2, "a2", "c1", "m3", "opened"),
        Item(4, "a2", "c1", "m3", "opened") >> >>

\* Times are counted in seconds: every time the job handles is a whole
\* number of seconds (item.timestamp * 1000 ms, createdAt, the watermark), so
\* the source's milliseconds are divided by 1000 throughout.

\* new Date(item.timestamp * 1000).toUTCString(), stored by the sink as a
\* DateTime: the label of that second
ToUTCString(seconds) == seconds

\* app.cron.service.ts:206-218 / 236-248: one accepted item as a row
ToMessage(item) ==
  [audienceId |-> item.audienceId, customerId |-> item.customerId,
   event |-> item.event, eventProvider |-> "mailgun",
   messageId |-> item.messageId,
   createdAt |-> ToUTCString(item.timestamp)]

\* the guard of line 207 / 237: the item is skipped
SkipItemMutant(item) == ~Truthy(item.audienceId) /\ ~Truthy(item.customerId)
SkipItem(item) == ~Truthy(item.audienceId) \/ ~Truthy(item.customerId)

RECURSIVE PushItems(_, _)
\* the for-loop over events.items, pushing onto batchToSave
PushItems(batchToSave, its) ==
  IF its = << >> THEN batchToSave
  ELSE PushItems(IF SkipItem(Head(its)) THEN batchToSave
                 ELSE Append(batchToSave, ToMessage(Head(its))),
                 Tail(its))

(***************************************************************************)
(* The analytical sink: message_status                                     *)
(***************************************************************************)
\* PRIMARY KEY of createTableQuery: the sorting key on which
\* ReplacingMergeTree collapses rows
PrimaryKeyMutant(row) == <<row.audienceId, row.customerId, row.messageId, row.event, row.createdAt>>
PrimaryKey(row) == <<row.audienceId, row.customerId, row.messageId, row.event>>

RECURSIVE InsertRows(_, _)
\* ReplacingMergeTree without a version column: of the rows with one
\* sorting key the last inserted survives
InsertRows(s, values) ==
  IF values = << >> THEN s
  ELSE InsertRows({x \in s : PrimaryKey(x) # PrimaryKey(Head(values))}
                    \cup {Head(values)},
                  Tail(values))

\* insertMessages (line 55-61)
insertMessages(s, values) == InsertRows(s, values)

SetMax(S) == CHOOSE x \in S : \A y \in S : y <= x

\* SELECT MAX(createdAt) FROM message_status: createdAt is a DateTime that
\* is not Nullable, so the maximum of no rows is the column's default,
\* 1970-01-01 00:00:00
getLastFetchedEventTimestamp(s) ==
  IF s = {} THEN 0 ELSE SetMax({x.createdAt : x \in s})

\* new Date('YYYY-MM-DD hh:mm:ss').getTime(): the string is read as local time
ParseLocalDate(label) == label + TimezoneOffset * 60

\* new Date('2000-10-10').getTime() / 1000
FloorSeconds == 971136000

\* a Date object is truthy whatever its time value
DateIsTruthy(ms) == TRUE

\* lines 166-171
LastEventFetch(dateInDB) ==
  LET d == ParseLocalDate(dateInDB) - TimezoneOffset * 60
  IN IF DateIsTruthy(d) THEN d ELSE FloorSeconds

(***************************************************************************)
(* The provider's events API, as called at lines 198-201 and 229-233       *)
(***************************************************************************)
\* event i of the list comes before event k in time (ties keep their order)
Before(list, i, k) ==
  \/ list[i].timestamp < list[k].timestamp
  \/ (list[i].timestamp = list[k].timestamp /\ i < k)

\* a list of events in ascending order of time: the event at place n is the
\* one that n - 1 events come before
Ascending(list) ==
  [n \in 1..Len(list) |->
     list[CHOOSE k \in 1..Len(list) :
            Cardinality({i \in 1..Len(list) : Before(list, i, k)}) = n - 1]]

\* The events a query of account a from begin ranges over. The service
\* returns the events from begin on, oldest first (ascending: 'yes'); a
\* stub returns its list as it is.
Query(a, begin) ==
  IF filtersBegin
  THEN Ascending(SelectSeq(items[a], LAMBDA e : e.timestamp >= begin))
  ELSE items[a]

\* page p of a result list
PageItems(list, p) ==
  SubSeq(list, (p - 1) * PageSize + 1, Min(p * PageSize, Len(list)))

\* mg.events.get(domain, {begin, ascending, page}): the page and the number
\* of the next one
EventsGet(a, begin, p) ==
  [items |-> PageItems(Query(a, begin), p), next |-> p + 1]

\* lines 222-223, 251-252: events.items[length - 1]?.timestamp * 1000
LastTimestamp(its) ==
  IF its = << >> THEN NaN ELSE its[Len(its)].timestamp

\* the while condition of lines 225-228
MorePagesMutant(lastEventTimestamp, lastEventFetch) ==
  TruthyNumber(lastEventTimestamp) /\ lastEventTimestamp >= lastEventFetch
MorePages(lastEventTimestamp, lastEventFetch) ==
  TruthyNumber(lastEventTimestamp) /\ lastEventTimestamp > lastEventFetch

\* begin of the query, lines 199, 230: lastEventFetch.getTime() + 1000 ms
BeginOf(lastEventFetch) == lastEventFetch + 1

(***************************************************************************)
(* The account table and the staging table                                 *)
(***************************************************************************)
\* accountRepository.count({where: mailgunAPIKey not null})
AccountsCount == NumAccounts

\* accountRepository.find({take, skip}) in the table's order
AccountsFind(take, skip) ==
  [i \in 1..(Min(skip + take, NumAccounts) - skip) |-> skip + i]

\* the row the webhook handler stored under id i; rows 3, 4, ... share a key
StagingRow(i) ==
  [id |-> i, audienceId |-> "a3", customerId |-> "c3",
   messageId |-> IF i <= 2 THEN "s1" ELSE "s2",
   event |-> IF i = 2 THEN "open" ELSE "delivered",
   createdAt |-> i]

\* line 273: {...item, eventProvider: 'sendgrid'}
TagSendgrid(i) ==
  [audienceId |-> StagingRow(i).audienceId,
   customerId |-> StagingRow(i).customerId,
   event |-> StagingRow(i).event, eventProvider |-> "sendgrid",
   messageId |-> StagingRow(i).messageId,
   createdAt |-> StagingRow(i).createdAt]

RECURSIVE SortedSeq(_)
\* the ids of S in ascending order
SortedSeq(S) ==
  IF S = {} THEN << >>
  ELSE LET m == CHOOSE x \in S : \A y \in S : x <= y
       IN <<m>> \o SortedSeq(S \ {m})

\* The first n and the last n ids of S: the query names no order, and the
\* table is scanned from either end
Ends(S, n) ==
  LET k == Min(n, Cardinality(S))
      all == SortedSeq(S)
  IN {SubSeq(all, 1, k), SubSeq(all, Len(all) - k + 1, Len(all))}

\* sendgridEventRepository.find({take}): up to take rows of the table
StagingFindMutant(take) == Ends(staging, take + 1)
StagingFind(take) == Ends(staging, take)

(***************************************************************************)
(* handleClickHouseCron, one step per await                                *)
(***************************************************************************)
\* locals of a run that is not executing
NoLocals ==
  [lastEventFetch |-> 0, offset |-> 0, accountsBatch |-> << >>, idx |-> 0,
   batchToSave |-> << >>, page |-> 0, lastEventTimestamp |-> NaN,
   batch |-> << >>, di |-> 0]

IdleRun == [pc |-> "idle"] @@ NoLocals
DoneRun == [pc |-> "done"] @@ NoLocals

\* what is recorded of a run
NoObs ==
  [watermark |-> NaN,       \* the watermark the run read
   pagesFetched |-> 0,      \* pages fetched for the account in hand
   processed |-> {},        \* accounts whose batch the run inserted
   failed |-> {},           \* accounts whose try block threw
   aborted |-> FALSE,       \* the outer catch was entered (or the process died)
   fetches |-> << >>,       \* sizes of the staging batches the run fetched
   delivered |-> [i \in 1..MaxStaging |-> 0]]  \* inserts of each staging row

Active(r) == run[r].pc \notin {"idle", "done"}

\* the account in hand
Account(r) == run[r].accountsBatch[run[r].idx]

\* the cron fires: the handler is entered
Start(r) ==
  /\ run[r].pc = "idle"
  /\ \A q \in Runs : q < r => run[q].pc # "idle"
  /\ run' = [run EXCEPT ![r].pc = "begin"]
  /\ UNCHANGED <<sink, staging, items, filtersBegin, obs, seeded, sink0, failures, syncVars, warehouseVars, keysVars>>

\* lines 164-180: the watermark is read and the accounts are counted
ReadWatermark(r) ==
  /\ run[r].pc = "begin"
  /\ LET lef == LastEventFetch(getLastFetchedEventTimestamp(sink))
     IN /\ run' = [run EXCEPT ![r].lastEventFetch = lef,
                              ![r].offset = 0,
                              ![r].pc = IF 0 < AccountsCount THEN "find"
                                        ELSE "sgfind"]
        /\ obs' = [obs EXCEPT ![r].watermark = lef]
  /\ UNCHANGED <<sink, staging, items, filtersBegin, seeded, sink0, failures, syncVars, warehouseVars, keysVars>>

\* lines 183-189: the next batch of accounts
FindAccounts(r) ==
  /\ run[r].pc = "find"
  /\ run' = [run EXCEPT ![r].accountsBatch = AccountsFind(BATCH_SIZE, run[r].offset),
                        ![r].idx = 1,
                        ![r].pc = "first"]
  /\ UNCHANGED <<sink, staging, items, filtersBegin, obs, seeded, sink0, failures, syncVars, warehouseVars, keysVars>>

\* lines 198-223: the first page of the account in hand
FirstPage(r) ==
  /\ run[r].pc = "first"
  /\ LET events == EventsGet(Account(r), BeginOf(run[r].lastEventFetch), 1)
         last == LastTimestamp(events.items)
     IN run' = [run EXCEPT ![r].batchToSave = PushItems(<< >>, events.items),
                           ![r].page = events.next,
                           ![r].lastEventTimestamp = last,
                           ![r].pc = IF MorePages(last, run[r].lastEventFetch)
                                     THEN "next" ELSE "insert"]
  /\ obs' = [obs EXCEPT ![r].pagesFetched = 1]
  /\ UNCHANGED <<sink, staging, items, filtersBegin, seeded, sink0, failures, syncVars, warehouseVars, keysVars>>

\* lines 229-254: one more page
NextPage(r) ==
  /\ run[r].pc = "next"
  /\ LET events == EventsGet(Account(r), BeginOf(run[r].lastEventFetch), run[r].page)
         last == LastTimestamp(events.items)
     IN run' = [run EXCEPT ![r].batchToSave = PushItems(@, events.items),
                           ![r].page = events.next,
                           ![r].lastEventTimestamp = last,
                           ![r].pc = IF MorePages(last, run[r].lastEventFetch)
                                     THEN "next" ELSE "insert"]
  /\ obs' = [obs EXCEPT ![r].pagesFetched = @ + 1]
  /\ UNCHANGED <<sink, staging, items, filtersBegin, seeded, sink0, failures, syncVars, warehouseVars, keysVars>>

\* the locals once the account in hand is left (lines 191, 260-262, 182):
\* the next account of the batch, the next batch, or the drain
AfterAccount(r) ==
  IF run[r].idx < Len(run[r].accountsBatch)
  THEN [run[r] EXCEPT !.idx = @ + 1, !.pc = "first", !.batchToSave = << >>,
                      !.page = 0, !.lastEventTimestamp = NaN]
  ELSE [run[r] EXCEPT !.offset = @ + BATCH_SIZE,
                      !.pc = IF run[r].offset + BATCH_SIZE < AccountsCount
                             THEN "find" ELSE "sgfind",
                      !.accountsBatch = << >>, !.idx = 0,
                      !.batchToSave = << >>, !.page = 0,
                      !.lastEventTimestamp = NaN]

\* line 256: the account's batch is inserted
InsertAccount(r) ==
  /\ run[r].pc = "insert"
  /\ sink' = insertMessages(sink, run[r].batchToSave)
  /\ run' = [run EXCEPT ![r] = AfterAccount(r)]
  /\ obs' = [obs EXCEPT ![r].processed = @ \cup {Account(r)},
                        ![r].pagesFetched = 0]
  /\ UNCHANGED <<staging, items, filtersBegin, seeded, sink0, failures, syncVars, warehouseVars, keysVars>>

\* where a throw inside the account's try block leads (lines 257-259)
AccountCatchMutant(r) == DoneRun
AccountCatch(r) == AfterAccount(r)

\* lines 192-259: the provider call or the insert of the account throws
FailAccount(r) ==
  /\ run[r].pc \in {"first", "next", "insert"}
  /\ run' = [run EXCEPT ![r] = AccountCatch(r)]
  /\ obs' = [obs EXCEPT ![r].failed = @ \cup {Account(r)},
                        ![r].pagesFetched = 0]
  /\ failures < MaxFailures
  /\ failures' = failures + 1
  /\ UNCHANGED <<sink, staging, items, filtersBegin, seeded, sink0, syncVars, warehouseVars, keysVars>>

\* lines 268-270, 280-282: up to BATCH_SIZE staging rows; none ends the run
FindStaging(r) ==
  /\ run[r].pc = "sgfind"
  /\ \E b \in StagingFind(BATCH_SIZE) :
       /\ run' = [run EXCEPT ![r] = IF Len(b) > 0
                                    THEN [@ EXCEPT !.batch = b, !.pc = "sginsert"]
                                    ELSE DoneRun]
       /\ obs' = [obs EXCEPT ![r].fetches = Append(@, Len(b))]
  /\ UNCHANGED <<sink, staging, items, filtersBegin, seeded, sink0, failures, syncVars, warehouseVars, keysVars>>

\* line 273: batch.map(...), the staging rows whose copies are inserted
MappedBatchMutant(batch) == SubSeq(batch, 1, Len(batch) - 1)
MappedBatch(batch) == batch

\* lines 272-274: the batch is inserted, tagged
InsertStaging(r) ==
  /\ run[r].pc = "sginsert"
  /\ LET ids == MappedBatch(run[r].batch)
     IN /\ sink' = insertMessages(sink, [k \in 1..Len(ids) |-> TagSendgrid(ids[k])])
        /\ obs' = [obs EXCEPT ![r].delivered =
                     [i \in 1..MaxStaging |->
                        IF \E k \in 1..Len(ids) : ids[k] = i
                        THEN @[i] + 1 ELSE @[i]]]
  /\ run' = [run EXCEPT ![r].pc = "sgdelete", ![r].di = 1]
  /\ UNCHANGED <<staging, items, filtersBegin, seeded, sink0, failures, syncVars, warehouseVars, keysVars>>

\* line 277: the rows sendgridEventRepository.delete(item) removes
DeletedByMutant(item) == staging
DeletedBy(item) == {item}

\* lines 276-278: one row of the batch is deleted
DeleteStaging(r) ==
  /\ run[r].pc = "sgdelete"
  /\ staging' = staging \ DeletedBy(run[r].batch[run[r].di])
  /\ run' = [run EXCEPT ![r] = IF run[r].di < Len(run[r].batch)
                               THEN [@ EXCEPT !.di = @ + 1]
                               ELSE [@ EXCEPT !.di = 0, !.batch = << >>,
                                              !.pc = "sgfind"]]
  /\ UNCHANGED <<sink, items, filtersBegin, obs, seeded, sink0, failures, syncVars, warehouseVars, keysVars>>

\* lines 284-286: an await outside the account's try block throws (or the
\* process dies there); the handler ends
FailRun(r) ==
  /\ run[r].pc \in {"begin", "find", "sgfind", "sginsert", "sgdelete"}
  /\ run' = [run EXCEPT ![r] = DoneRun]
  /\ obs' = [obs EXCEPT ![r].aborted = TRUE]
  /\ failures < MaxFailures
  /\ failures' = failures + 1
  /\ UNCHANGED <<sink, staging, items, filtersBegin, seeded, sink0, syncVars, warehouseVars, keysVars>>

\* the steps of a run that do not fail
Step(r) ==
  \/ ReadWatermark(r)
  \/ FindAccounts(r)
  \/ FirstPage(r)
  \/ NextPage(r)
  \/ InsertAccount(r)
  \/ FindStaging(r)
  \/ InsertStaging(r)
  \/ DeleteStaging(r)

(***************************************************************************)
(* The warehouse sync: IntegrationsProcessor.handleDatabaseSync            *)
(***************************************************************************)
\* Times of the sync are counted in half seconds, so that new Date() can
\* fall between two whole seconds while a year still fits a machine
\* integer: the source's milliseconds are divided by 500 throughout.
hourMs == 60 * 60 * 2
dayMs == 24 * hourMs
weekMs == 7 * dayMs
monthMs == 30 * dayMs
yearMs == 365 * dayMs

FrequencyUnit == {"HOUR", "DAY", "WEEK", "MONTH", "YEAR"}

frequencyUnitToMsMap ==
  [u \in FrequencyUnit |->
     CASE u = "HOUR" -> hourMs
       [] u = "DAY" -> dayMs
       [] u = "WEEK" -> weekMs
       [] u = "MONTH" -> monthMs
       [] u = "YEAR" -> yearMs]

DBType == {"DATABRICKS", "POSTGRESQL"}

Tasks == 1..MaxTasks

\* the processes that take jobs from the 'db' queue, one job each at a time
Workers == {"w1", "w2"}

\* the time at which the integration was configured (a whole second)
T0 == 0

\* the instants at which something happens: within the first second, after
\* half a day, a day, a day and half a second, two days
Instants ==
  {T0, T0 + 1, T0 + 12 * hourMs, T0 + dayMs, T0 + dayMs + 1, T0 + 2 * dayMs}

\* new Date().toUTCString(), read back by new Date(lastSync).getTime(): the
\* string holds whole seconds
DateToUTCString(t) == (t \div 2) * 2

\* a Database row
DatabaseRow(number, unit, type, last) ==
  [id |-> 1, frequencyNumber |-> number, frequencyUnit |-> unit,
   dbType |-> type, query |-> "select", lastSync |-> last]

\* the database of a payload that has none
NoDatabase == DatabaseRow(0, "HOUR", "POSTGRESQL", 0)

\* job.data of a task: the integration as it was when the job was queued,
\* or a payload without integration or without database
Payload(kind, db) ==
  [kind |-> kind, database |-> IF kind = "integration" THEN db ELSE NoDatabase]

PayloadKinds == {"integration", "noIntegration", "noDatabase"}

\* a job that is not queued yet
NoTask ==
  [pc |-> "none", payload |-> Payload("noIntegration", NoDatabase),
   now |-> NaN,           \* new Date() of line 66
   stamp |-> NaN,         \* lastSync of the object passed to save
   before |-> NaN]        \* lastSync of the row when save stored it

\* line 58: the payload is refused
WrongIntegrationMutant(payload) == payload.kind = "noIntegration"
WrongIntegration(payload) == payload.kind # "integration"

\* lines 61-64
SyncTime(db) ==
  db.lastSync + db.frequencyNumber * frequencyUnitToMsMap[db.frequencyUnit]

\* line 66: if (new Date(syncTime) < new Date()) return
DueCheckReturnsMutant(syncTime, now) == syncTime <= now
DueCheckReturns(syncTime, now) == syncTime < now

\* databasesRepository.save({id, lastSync}): the row of that id gets the
\* columns the object names
Save(db, partial) ==
  IF db.id = partial.id THEN [db EXCEPT !.lastSync = partial.lastSync] ELSE db

\* the jobs a worker is executing
Executing == {t \in Tasks : task[t].pc \in {"connector", "save"}}

\* time passes
Advance(instant) ==
  /\ instant > clock
  /\ clock' = instant
  /\ UNCHANGED <<database, database0, task, cronVars, warehouseVars, keysVars>>

\* a producer queues a 'db' job with the integration as it reads it
Enqueue(t) ==
  /\ task[t].pc = "none"
  /\ \A q \in Tasks : q < t => task[q].pc # "none"
  /\ \E kind \in PayloadKinds :
       task' = [task EXCEPT ![t].pc = "queued",
                            ![t].payload = Payload(kind, database)]
  /\ UNCHANGED <<clock, database, database0, cronVars, warehouseVars, keysVars>>

\* lines 56-68: a free worker takes the next job of the queue; the payload
\* is validated, the due check decides, the connector is called
Process(t) ==
  /\ task[t].pc = "queued"
  /\ \A q \in Tasks : q < t => task[q].pc # "queued"
  /\ Cardinality(Executing) < Cardinality(Workers)
  /\ LET integration == task[t].payload
         syncTime == SyncTime(integration.database)
     IN task' = [task EXCEPT ![t] =
          IF WrongIntegration(integration)
          THEN [@ EXCEPT !.pc = "invalid"]
          ELSE IF DueCheckReturns(syncTime, clock)
          THEN [@ EXCEPT !.pc = "returned", !.now = clock]
          ELSE [@ EXCEPT !.pc = "connector", !.now = clock]]
  /\ UNCHANGED <<clock, database, database0, cronVars, warehouseVars, keysVars>>

\* lines 68-75: the connector returned; save is called with the time of now
ConnectorResolves(t) ==
  /\ task[t].pc = "connector"
  /\ task' = [task EXCEPT ![t].pc = "save",
                          ![t].stamp = DateToUTCString(clock)]
  /\ UNCHANGED <<clock, database, database0, cronVars, warehouseVars, keysVars>>

\* lines 47-49, 68: handleDatabricksSync throws (the POSTGRESQL entry has
\* nothing that can)
ConnectorRejects(t) ==
  /\ task[t].pc = "connector"
  /\ task[t].payload.database.dbType = "DATABRICKS"
  /\ task' = [task EXCEPT ![t].pc = "connectorThrew"]
  /\ UNCHANGED <<clock, database, database0, cronVars, warehouseVars, keysVars>>

\* lines 73-76: save stores the row
SaveResolves(t) ==
  /\ task[t].pc = "save"
  /\ database' = Save(database, [id |-> task[t].payload.database.id,
                                 lastSync |-> task[t].stamp])
  /\ task' = [task EXCEPT ![t].pc = "done", ![t].before = database.lastSync]
  /\ UNCHANGED <<clock, database0, cronVars, warehouseVars, keysVars>>

\* lines 73-76: save throws
SaveRejects(t) ==
  /\ task[t].pc = "save"
  /\ task' = [task EXCEPT ![t].pc = "saveThrew"]
  /\ UNCHANGED <<clock, database, database0, cronVars, warehouseVars, keysVars>>

(***************************************************************************)
(* The connector: IntegrationsProcessor.handleDatabricksSync               *)
(***************************************************************************)
\* a column a row does not have, a field a record does not have
Absent == "absent"

\* the columns of the query's rows besides id
Columns == {"email", "name"}

\* the fields of a CustomerRecord besides ownerId and databricksId; phone is
\* one no row carries
Fields == Columns \cup {"phone"}

\* integration.owner.id, and the id of another account
Owner == "o1"
OtherOwner == "o2"

\* a row of the result set; id "" is a row without id
WarehouseRow(id, email, name) ==
  [id |-> id, cols |-> [c \in Columns |-> IF c = "email" THEN email ELSE name]]

\* a CustomerRecord
CustomerRecord(databricksId, ownerId, email, name, phone) ==
  [databricksId |-> databricksId, ownerId |-> ownerId,
   cols |-> [f \in Fields |-> CASE f = "email" -> email
                                [] f = "name" -> name
                                [] f = "phone" -> phone]]

\* What database.query returns when it is executed, in the chunks
\* fetchChunk hands over: the warehouse as it stands at one time or another
ResultSets ==
  { \* two chunks; a row without id; the id x in two rows
    << << WarehouseRow("x", "e1", Absent) >>,
       << WarehouseRow("", "e9", "n9"), WarehouseRow("x", Absent, "n1") >> >>,
    \* one chunk, two ids
    << << WarehouseRow("x", Absent, "n2"), WarehouseRow("y", "e2", Absent) >> >>,
    \* one row, of the id x
    << << WarehouseRow("x", "e3", Absent) >> >>,
    \* no rows
    << << >> >> }

\* stores the sync may find
InitialCustomers ==
  { << >>,
    << CustomerRecord("x", OtherOwner, "e0", "n0", "p0"),
       CustomerRecord("x", Owner, "e0", "n0", "p0"),
       CustomerRecord(Absent, Owner, "e5", Absent, "p5") >> }

\* a connector call that has not begun
NoConn ==
  [pc |-> "idle", session |-> "none", cursor |-> "none",
   rows |-> << << >> >>,   \* the result set of executeStatement
   chunk |-> 0,            \* chunks fetched
   i |-> 0,                \* the row of the chunk in hand
   found |-> 0,            \* customerInDb: the place of the record, 0 for null
   wrote |-> << >>]        \* the rows the call saved or created, in order

\* the chunk in hand and the row in hand
Customers(c) == c.rows[c.chunk]
Customer(c) == Customers(c)[c.i]

\* line 100: if (!customer.id) continue -- the next row of the chunk, after
\* row i, that has an id; 0 if there is none
NextWithId(chunk, i) ==
  IF \E j \in (i + 1)..Len(chunk) : Truthy(chunk[j].id)
  THEN CHOOSE j \in (i + 1)..Len(chunk) :
         /\ Truthy(chunk[j].id)
         /\ \A k \in (i + 1)..(j - 1) : ~Truthy(chunk[k].id)
  ELSE 0

\* the position after row i of the chunk in hand: the lookup of the next
\* row with an id, or hasMoreRows
AfterRow(c, i) ==
  LET j == NextWithId(Customers(c), i)
  IN IF j > 0 THEN [c EXCEPT !.pc = "findOne", !.i = j, !.found = 0]
     ELSE [c EXCEPT !.pc = "hasMoreRows", !.i = 0, !.found = 0]

\* lines 101-103: customerModel.findOne({databricksId, ownerId}) -- the
\* first record of the store that matches, 0 for null
FindOne(store, databricksId, ownerId) ==
  IF \E n \in 1..Len(store) :
       store[n].databricksId = databricksId /\ store[n].ownerId = ownerId
  THEN CHOOSE n \in 1..Len(store) :
         /\ store[n].databricksId = databricksId /\ store[n].ownerId = ownerId
         /\ \A m \in 1..(n - 1) :
              ~(store[m].databricksId = databricksId /\ store[m].ownerId = ownerId)
  ELSE 0

\* lines 106-110: the keys of the row that are assigned to customerInDb
AssignedKeysMutant(row) == Columns
AssignedKeys(row) == {c \in Columns : row.cols[c] # Absent}

\* line 111: customerInDb.save() stores the paths that were assigned, in
\* the record customerInDb was read from
SaveDocument(store, n, row) ==
  [store EXCEPT ![n].cols =
     [f \in Fields |-> IF f \in AssignedKeys(row) THEN row.cols[f] ELSE @[f]]]

\* lines 113-118: customerModel.create({...customer, ownerId, id: undefined,
\* databricksId: customer.id})
CreateDocument(store, row, ownerId) ==
  Append(store,
         [databricksId |-> row.id, ownerId |-> ownerId,
          cols |-> [f \in Fields |-> IF f \in Columns THEN row.cols[f] ELSE Absent]])

\* the job is inside databasesMap[dbType]
InConnector(t) == task[t].pc = "connector"

\* lines 80-85: client.connect
Connect(t) ==
  /\ InConnector(t)
  /\ task[t].payload.database.dbType = "DATABRICKS"
  /\ conn[t].pc = "idle"
  /\ conn' = [conn EXCEPT ![t].pc = "openSession"]
  /\ UNCHANGED <<customers, cronVars, syncVars, keysVars>>

\* line 86: client.openSession
OpenSession(t) ==
  /\ InConnector(t)
  /\ conn[t].pc = "openSession"
  /\ conn' = [conn EXCEPT ![t].pc = "executeStatement", ![t].session = "open"]
  /\ UNCHANGED <<customers, cronVars, syncVars, keysVars>>

\* lines 88-93: session.executeStatement(database.query)
ExecuteStatement(t) ==
  /\ InConnector(t)
  /\ conn[t].pc = "executeStatement"
  /\ \E rows \in ResultSets :
       conn' = [conn EXCEPT ![t].pc = "fetchChunk", ![t].cursor = "open",
                            ![t].rows = rows, ![t].chunk = 0]
  /\ UNCHANGED <<customers, cronVars, syncVars, keysVars>>

\* lines 94-100: queryOperation.fetchChunk, and on to its first row with id
FetchChunk(t) ==
  /\ InConnector(t)
  /\ conn[t].pc = "fetchChunk"
  /\ conn' = [conn EXCEPT ![t] = AfterRow([@ EXCEPT !.chunk = @ + 1], 0)]
  /\ UNCHANGED <<customers, cronVars, syncVars, keysVars>>

\* lines 101-103: the lookup of the row in hand
FindCustomer(t) ==
  /\ InConnector(t)
  /\ conn[t].pc = "findOne"
  /\ conn' = [conn EXCEPT ![t].pc = "write",
                          ![t].found = FindOne(customers, Customer(conn[t]).id, Owner)]
  /\ UNCHANGED <<customers, cronVars, syncVars, keysVars>>

\* lines 105-111: the record found is merged and saved
SaveCustomer(t) ==
  /\ InConnector(t)
  /\ conn[t].pc = "write"
  /\ conn[t].found > 0
  /\ customers' = SaveDocument(customers, conn[t].found, Customer(conn[t]))
  /\ conn' = [conn EXCEPT ![t] =
                AfterRow([@ EXCEPT !.wrote = Append(@, Customer(conn[t]))], conn[t].i)]
  /\ UNCHANGED <<cronVars, syncVars, keysVars>>

\* lines 112-119: no record was found, one is created
CreateCustomer(t) ==
  /\ InConnector(t)
  /\ conn[t].pc = "write"
  /\ conn[t].found = 0
  /\ customers' = CreateDocument(customers, Customer(conn[t]), Owner)
  /\ conn' = [conn EXCEPT ![t] =
                AfterRow([@ EXCEPT !.wrote = Append(@, Customer(conn[t]))], conn[t].i)]
  /\ UNCHANGED <<cronVars, syncVars, keysVars>>

\* line 122: queryOperation.hasMoreRows
HasMoreRows(t) ==
  /\ InConnector(t)
  /\ conn[t].pc = "hasMoreRows"
  /\ conn' = [conn EXCEPT ![t].pc = IF conn[t].chunk < Len(conn[t].rows)
                                    THEN "fetchChunk" ELSE "close"]
  /\ UNCHANGED <<customers, cronVars, syncVars, keysVars>>

\* what queryOperation.close() and the end of the function leave of the
\* session and the cursor (line 125)
ClosedAtEnd(c) == [c EXCEPT !.cursor = "closed", !.pc = "returned"]

\* line 125: queryOperation.close(), and the function returns
CloseOperation(t) ==
  /\ InConnector(t)
  /\ conn[t].pc = "close"
  /\ conn' = [conn EXCEPT ![t] = ClosedAtEnd(@)]
  /\ UNCHANGED <<customers, cronVars, syncVars, keysVars>>

\* the awaits of handleDatabricksSync
Awaits ==
  {"idle", "openSession", "executeStatement", "fetchChunk", "findOne", "write",
   "hasMoreRows", "close"}

\* what a throw leaves of the session and the cursor: the function has no
\* try block
ThrownFrom(c) == [c EXCEPT !.pc = "threw"]

\* an await of handleDatabricksSync throws
ConnectorThrows(t) ==
  /\ InConnector(t)
  /\ task[t].payload.database.dbType = "DATABRICKS"
  /\ conn[t].pc \in Awaits
  /\ conn' = [conn EXCEPT ![t] = ThrownFrom(@)]
  /\ UNCHANGED <<customers, cronVars, syncVars, keysVars>>

\* lines 50-52: the POSTGRESQL entry of databasesMap does nothing
PostgreSQLSync(t) ==
  /\ InConnector(t)
  /\ task[t].payload.database.dbType = "POSTGRESQL"
  /\ conn[t].pc = "idle"
  /\ conn' = [conn EXCEPT ![t].pc = "returned"]
  /\ UNCHANGED <<customers, cronVars, syncVars, keysVars>>

\* the await of line 68 resumes with the connector's result
ConnectorReturned(t) ==
  /\ conn[t].pc = "returned"
  /\ ConnectorResolves(t)

ConnectorThrew(t) ==
  /\ conn[t].pc = "threw"
  /\ ConnectorRejects(t)

(***************************************************************************)
(* The schema discovery: CronService.handleCustomerKeysCron                *)
(***************************************************************************)
KEYS_TO_SKIP == {"__v", "_id", "audiences", "ownerId"}

\* names every object has from Object.prototype: keys[name] of the empty
\* object is a function
Inherited == {"constructor"}

\* the keys of the documents, in the order Object.keys gives them
KeyOrder ==
  <<"_id", "email", "age", "tags", "nick", "constructor", "audiences", "ownerId", "__v">>

AllKeys == {KeyOrder[n] : n \in 1..Len(KeyOrder)}

\* A value of a document: the name of its type, for a string what it reads
\* as, for an array the type of its first element
Value(kind, text, elem) == [kind |-> kind, text |-> text, elem |-> elem]

Undefined == Value("undefined", "-", "-")
Null == Value("null", "-", "-")
EmptyString == Value("String", "", "-")
PlainString == Value("String", "plain", "-")
EmailString == Value("String", "email", "-")
DateString == Value("String", "date", "-")
ANumber == Value("Number", "-", "-")
ABoolean == Value("Boolean", "-", "-")
ArrayOf(elem) == Value("Array", "-", elem)

\* the document has no such key
NoKey == Value("absent", "-", "-")

\* customer.toObject()
Document(email, age, tags, nick, ctor) ==
  [k \in AllKeys |->
     CASE k = "_id" -> Value("ObjectId", "-", "-")
       [] k = "email" -> email
       [] k = "age" -> age
       [] k = "tags" -> tags
       [] k = "nick" -> nick
       [] k = "constructor" -> ctor
       [] k = "audiences" -> ArrayOf("String")
       [] k = "ownerId" -> PlainString
       [] k = "__v" -> ANumber]

\* The collections the job may find
DocSets ==
  << \* the first value of email is empty, of age null; nick has no value
     << Document(EmptyString, Null, ArrayOf("String"), EmptyString, NoKey),
        Document(EmailString, ANumber, NoKey, Undefined, NoKey),
        Document(PlainString, ABoolean, ArrayOf("Number"), Null, NoKey) >>,
     \* other values under the same keys
     << Document(DateString, PlainString, NoKey, NoKey, NoKey),
        Document(EmailString, NoKey, ArrayOf("Number"), PlainString, NoKey) >>,
     \* a document with a key constructor
     << Document(PlainString, ANumber, NoKey, NoKey, NoKey),
        Document(EmailString, NoKey, NoKey, NoKey, PlainString) >>,
     \* no documents
     << >> >>

\* a CustomerKeys document
CustomerKey(key, type, isArray) == [key |-> key, type |-> type, isArray |-> isArray]

\* CustomerKeys collections the job may find
InitialKeyStores ==
  { << >>,
    << CustomerKey("nick", "Number", FALSE), CustomerKey("email", "String", FALSE) >> }

\* lines 120-122: item !== '' && item !== undefined && item !== null
IsValidItem(item) == item # EmptyString /\ item # Undefined /\ item # Null

\* keys[key].find(...)
ValidItemMutant(samples) ==
  IF \E n \in 1..Len(samples) : IsValidItem(samples[n])
  THEN samples[CHOOSE n \in 1..Len(samples) :
                 /\ IsValidItem(samples[n])
                 /\ \A m \in (n + 1)..Len(samples) : ~IsValidItem(samples[m])]
  ELSE Undefined
ValidItem(samples) ==
  IF \E n \in 1..Len(samples) : IsValidItem(samples[n])
  THEN samples[CHOOSE n \in 1..Len(samples) :
                 /\ IsValidItem(samples[n])
                 /\ \A m \in 1..(n - 1) : ~IsValidItem(samples[m])]
  ELSE Undefined

\* line 124: the key is skipped
SkipKey(validItem) ==
  validItem = EmptyString \/ validItem = Undefined \/ validItem = Null

\* isEmail, isDateString of class-validator: of strings only
isEmail(item) == item.kind = "String" /\ item.text = "email"
isDateString(item) == item.kind = "String" /\ item.text = "date"

\* lines 127-134
InferType(validItem) ==
  LET isArray == validItem.kind = "Array"
      type == IF isArray THEN validItem.elem ELSE validItem.kind
  IN [isArray |-> isArray,
      type |-> IF type = "String"
               THEN IF isDateString(validItem) THEN "Date"
                    ELSE IF isEmail(validItem) THEN "Email" ELSE type
               ELSE type]

\* The CustomerKeys collection is keyed on key (its schema is not among the
\* sources; the specification: "upsert(name, {type, isArray}) keyed on
\* name"): an upsert is one indivisible operation that overwrites the
\* document of the key, or inserts it when there is none
CustomerKeysUpsert(store, key, doc) ==
  IF \E n \in 1..Len(store) : store[n].key = key
  THEN LET n == CHOOSE i \in 1..Len(store) :
                  /\ store[i].key = key
                  /\ \A m \in 1..(i - 1) : store[m].key # key
       IN [store EXCEPT ![n] = doc]
  ELSE Append(store, doc)

\* lines 136-148: updateOne({key}, {$set: {key, type, isArray}}, {upsert})
UpdateOneUpsertMutant(store, key, type, isArray) ==
  Append(store, CustomerKey(key, type, isArray))
UpdateOneUpsert(store, key, type, isArray) ==
  CustomerKeysUpsert(store, key, CustomerKey(key, type, isArray))

\* executions of handleCustomerKeysCron
KeyRuns == {1, 2}

\* the keys object: the samples of each key (none: the key is not set), the
\* keys in the order they were set, and whether the scan threw
NoKeys == [samples |-> [k \in AllKeys |-> << >>], order |-> << >>, threw |-> FALSE]

RECURSIVE ScanKeys(_, _, _)
\* lines 105-114: the keys of one document, from the n-th of KeyOrder on
ScanKeys(keys, obj, n) ==
  IF n > Len(KeyOrder) \/ keys.threw THEN keys
  ELSE LET key == KeyOrder[n]
       IN IF obj[key] = NoKey \/ key \in KEYS_TO_SKIP
          THEN ScanKeys(keys, obj, n + 1)
          ELSE IF keys.samples[key] # << >>
          THEN ScanKeys([keys EXCEPT !.samples[key] = Append(@, obj[key])], obj, n + 1)
          ELSE IF key \in Inherited
          THEN [keys EXCEPT !.threw = TRUE]
          ELSE ScanKeys([keys EXCEPT !.samples[key] = <<obj[key]>>,
                                     !.order = Append(@, key)], obj, n + 1)

RECURSIVE ScanBatch(_, _)
\* line 103: batch.forEach
ScanBatch(keys, batch) ==
  IF batch = << >> THEN keys
  ELSE ScanBatch(ScanKeys(keys, Head(batch), 1), Tail(batch))

\* a run that is not executing
NoKeyJob ==
  [pc |-> "idle", current |-> 0, documentsCount |-> 0, keys |-> NoKeys, k |-> 0,
   version |-> 0,         \* the version of the collection when the run began
   after |-> {},          \* the runs that had ended when the run began
   result |-> << >>]      \* the CustomerKeys collection when the run ended

\* line 119, 124: the next key, after the k-th, that is not skipped; the
\* run ends when there is none
NextKey(job, k, store, version) ==
  IF \E n \in (k + 1)..Len(job.keys.order) :
       ~SkipKey(ValidItem(job.keys.samples[job.keys.order[n]]))
  THEN [job EXCEPT !.pc = "updateOne",
                   !.k = CHOOSE n \in (k + 1)..Len(job.keys.order) :
                           /\ ~SkipKey(ValidItem(job.keys.samples[job.keys.order[n]]))
                           /\ \A m \in (k + 1)..(n - 1) :
                                SkipKey(ValidItem(job.keys.samples[job.keys.order[m]]))]
  ELSE [job EXCEPT !.pc = "done", !.k = 0, !.result = store, !.version = version]

\* the cron fires
StartKeys(j) ==
  /\ kjob[j].pc = "idle"
  /\ \A q \in KeyRuns : q < j => kjob[q].pc # "idle"
  /\ kjob' = [kjob EXCEPT ![j].pc = "count",
                          ![j].version = docs.version,
                          ![j].after = {q \in KeyRuns : kjob[q].pc \in {"done", "caught"}}]
  /\ UNCHANGED <<docs, keyStore, cronVars, syncVars, warehouseVars>>

\* lines 89-94: estimatedDocumentCount
CountDocuments(j) ==
  /\ kjob[j].pc = "count"
  /\ LET n == Len(docs.list)
         job == [kjob[j] EXCEPT !.current = 0, !.documentsCount = n, !.keys = NoKeys]
     IN kjob' = [kjob EXCEPT ![j] = IF 0 < n THEN [job EXCEPT !.pc = "find"]
                                     ELSE NextKey(job, 0, keyStore, docs.version)]
  /\ UNCHANGED <<docs, keyStore, cronVars, syncVars, warehouseVars>>

\* lines 96-117: one batch is read and scanned
FindBatch(j) ==
  /\ kjob[j].pc = "find"
  /\ LET batch == SubSeq(docs.list, kjob[j].current + 1,
                         Min(kjob[j].current + BATCH_SIZE, Len(docs.list)))
         keys == ScanBatch(kjob[j].keys, batch)
         job == [kjob[j] EXCEPT !.keys = keys, !.current = @ + BATCH_SIZE]
     IN kjob' = [kjob EXCEPT ![j] =
                   IF keys.threw THEN [job EXCEPT !.pc = "caught"]
                   ELSE IF job.current < job.documentsCount THEN job
                   ELSE NextKey(job, 0, keyStore, docs.version)]
  /\ UNCHANGED <<docs, keyStore, cronVars, syncVars, warehouseVars>>

\* lines 119-149: the type of one key is inferred and stored
UpdateKey(j) ==
  /\ kjob[j].pc = "updateOne"
  /\ LET key == kjob[j].keys.order[kjob[j].k]
         inferred == InferType(ValidItem(kjob[j].keys.samples[key]))
         store == UpdateOneUpsert(keyStore, key, inferred.type, inferred.isArray)
     IN /\ keyStore' = store
        /\ kjob' = [kjob EXCEPT ![j] = NextKey(@, kjob[j].k, store, docs.version)]
  /\ UNCHANGED <<docs, cronVars, syncVars, warehouseVars>>

\* lines 156-158: an await of the job throws
KeysThrow(j) ==
  /\ kjob[j].pc \in {"count", "find", "updateOne"}
  /\ kjob' = [kjob EXCEPT ![j].pc = "caught"]
  /\ UNCHANGED <<docs, keyStore, cronVars, syncVars, warehouseVars>>

\* the customers change (another collection of DocSets takes the place)
ChangeDocuments(n) ==
  /\ docs.version = 0
  /\ DocSets[n] # docs.list
  /\ docs' = [list |-> DocSets[n], version |-> 1]
  /\ UNCHANGED <<keyStore, kjob, cronVars, syncVars, warehouseVars>>

(***************************************************************************)
(* Specifications                                                          *)
(***************************************************************************)
\* rows the sink may hold before the first run
InitialSinks ==
  { {},
    {[audienceId |-> "a0", customerId |-> "c0", event |-> "delivered",
      eventProvider |-> "mailgun", messageId |-> "m0", createdAt |-> 2]} }

InitCronVars(rots, filters, seeds, sinks) ==
  /\ \E rot \in rots :
       items = [a \in Accounts |->
                  EventLists[((a + rot) % Len(EventLists)) + 1]]
  /\ filtersBegin \in filters
  /\ \E n \in seeds : staging = 1..n
  /\ sink \in sinks
  /\ seeded = staging
  /\ sink0 = sink
  /\ run = [r \in Runs |-> IdleRun]
  /\ obs = [r \in Runs |-> NoObs]
  /\ failures = 0

\* no run of the schema discovery has begun
KeysIdle ==
  /\ docs = [list |-> << >>, version |-> 0]
  /\ keyStore = << >>
  /\ kjob = [j \in KeyRuns |-> NoKeyJob]

\* no connector call has begun
WarehouseIdle ==
  /\ customers = << >>
  /\ conn = [t \in Tasks |-> NoConn]

\* no 'db' job is queued
SyncIdle ==
  /\ clock = T0
  /\ database = DatabaseRow(1, "DAY", "POSTGRESQL", T0)
  /\ database0 = database
  /\ task = [t \in Tasks |-> NoTask]
  /\ WarehouseIdle
  /\ KeysIdle

InitCron(rots, filters, seeds, sinks) ==
  /\ InitCronVars(rots, filters, seeds, sinks)
  /\ SyncIdle

\* Runs that follow one another (the daily cron), each of which may fail:
\* every provider scenario, one staging row
Init == InitCron(0..(Len(EventLists) - 1), BOOLEAN, {1}, InitialSinks)

\* The same, with one provider scenario and every number of staging rows
InitDrain == InitCron({0}, {TRUE}, 0..MaxStaging, {{}})

StartAlone(r) ==
  /\ \A q \in Runs : ~Active(q)
  /\ Start(r)

Next ==
  \E r \in Runs :
    \/ StartAlone(r)
    \/ Step(r)
    \/ FailAccount(r)
    \/ FailRun(r)

vars == <<cronVars, syncVars, warehouseVars, keysVars>>

Spec == Init /\ [][Next]_vars

SpecDrain == InitDrain /\ [][Next]_vars

\* Two executions that overlap: the cron fires again while a run is under
\* way (nothing in the handler excludes it); no step throws
Concurrent == {1, 2}

InitOverlap == InitCron({0, 1}, BOOLEAN, {BATCH_SIZE + 1}, InitialSinks)

NextOverlap ==
  \E r \in Concurrent :
    \/ Start(r)
    \/ Step(r)

\* every await of a run that is under way completes
SpecOverlap == InitOverlap /\ [][NextOverlap]_vars /\ WF_vars(NextOverlap)

\* The 'db' queue: jobs of one integration, configured in every way, are
\* queued and processed while time passes; the workers of the queue take
\* jobs side by side
InitSync ==
  /\ InitCronVars({0}, {TRUE}, {0}, {{}})
  /\ clock = T0
  /\ \E number \in 1..MaxFrequencyNumber, unit \in FrequencyUnit, type \in DBType :
       database = DatabaseRow(number, unit, type, T0)
  /\ database0 = database
  /\ task = [t \in Tasks |-> NoTask]
  /\ WarehouseIdle
  /\ KeysIdle

NextSync ==
  \/ \E instant \in Instants : Advance(instant)
  \/ \E t \in Tasks :
       \/ Enqueue(t)
       \/ Process(t)
       \/ ConnectorResolves(t)
       \/ ConnectorRejects(t)
       \/ SaveResolves(t)
       \/ SaveRejects(t)

SpecSync == InitSync /\ [][NextSync]_vars

\* The connector at work: two 'db' jobs of one integration, taken by the two
\* workers, each executing the query on the warehouse as it stands then
WarehouseTasks == {1, 2}

InitWarehouse ==
  /\ InitCronVars({0}, {TRUE}, {0}, {{}})
  /\ clock = T0
  /\ \E type \in DBType : database = DatabaseRow(1, "DAY", type, T0)
  /\ database0 = database
  /\ task = [t \in Tasks |-> NoTask]
  /\ customers \in InitialCustomers
  /\ conn = [t \in Tasks |-> NoConn]
  /\ KeysIdle

NextWarehouse ==
  \E t \in WarehouseTasks :
    \/ Enqueue(t)
    \/ Process(t)
    \/ Connect(t)
    \/ OpenSession(t)
    \/ ExecuteStatement(t)
    \/ FetchChunk(t)
    \/ FindCustomer(t)
    \/ SaveCustomer(t)
    \/ CreateCustomer(t)
    \/ HasMoreRows(t)
    \/ CloseOperation(t)
    \/ ConnectorThrows(t)
    \/ PostgreSQLSync(t)
    \/ ConnectorReturned(t)
    \/ ConnectorThrew(t)
    \/ SaveResolves(t)
    \/ SaveRejects(t)

SpecWarehouse == InitWarehouse /\ [][NextWarehouse]_vars

\* The schema discovery: two runs, one after the other or overlapping (the
\* cron fires every minute), over every collection, which may change once
InitKeys ==
  /\ InitCronVars({0}, {TRUE}, {0}, {{}})
  /\ clock = T0
  /\ database = DatabaseRow(1, "DAY", "POSTGRESQL", T0)
  /\ database0 = database
  /\ task = [t \in Tasks |-> NoTask]
  /\ WarehouseIdle
  /\ \E n \in 1..Len(DocSets) : docs = [list |-> DocSets[n], version |-> 0]
  /\ keyStore \in InitialKeyStores
  /\ kjob = [j \in KeyRuns |-> NoKeyJob]

NextKeys ==
  \/ \E j \in KeyRuns :
       \/ StartKeys(j)
       \/ CountDocuments(j)
       \/ FindBatch(j)
       \/ UpdateKey(j)
       \/ KeysThrow(j)
  \/ \E n \in 1..Len(DocSets) : ChangeDocuments(n)

SpecKeys == InitKeys /\ [][NextKeys]_vars

(***************************************************************************)
(* Reference notions the properties are stated with                        *)
(***************************************************************************)
\* the dedup key of a sink row, as the specification names it
DedupKey(row) == <<row.audienceId, row.customerId, row.messageId, row.event>>

Keys(rows) == {DedupKey(x) : x \in rows}

\* an event that carries both correlation identifiers
Conforming(e) == e.audienceId # "" /\ e.customerId # ""

\* the run ended by returning from the drain loop
Completed(r) == run[r].pc = "done" /\ ~obs[r].aborted

\* the events account a's query returns under watermark w
Result(a, w) == Query(a, w + 1)

\* the first n pages of a result list, concatenated
FirstPages(list, n) == SubSeq(list, 1, Min(n * PageSize, Len(list)))

\* the last event of page p of the list is newer than w
Newer(list, w, p) ==
  LET its == PageItems(list, p)
  IN its # << >> /\ its[Len(its)].timestamp > w

\* pages of the list that hold an event
NumPages(list) == (Len(list) + PageSize - 1) \div PageSize

\* the pages a run under watermark w fetches of the list: up to the first
\* page whose last event is not newer than w
PagesNeeded(list, w) ==
  CHOOSE n \in 1..(NumPages(list) + 1) :
    /\ ~Newer(list, w, n)
    /\ \A p \in 1..(n - 1) : Newer(list, w, p)

\* the rows of the conforming events among the first n pages of the list
Collected(list, n) ==
  LET conf == SelectSeq(FirstPages(list, n), Conforming)
  IN [k \in 1..Len(conf) |->
        [audienceId |-> conf[k].audienceId, customerId |-> conf[k].customerId,
         event |-> conf[k].event, eventProvider |-> "mailgun",
         messageId |-> conf[k].messageId, createdAt |-> conf[k].timestamp]]

Range(f) == {f[k] : k \in DOMAIN f}

\* sizes of the fetches that drain n rows in batches of b, the empty one last
DrainSizes(n, b) ==
  [k \in 1..((n + b - 1) \div b + 1) |->
     IF k * b <= n THEN b
     ELSE IF (k - 1) * b < n THEN n - (k - 1) * b ELSE 0]

(***************************************************************************)
(* C1. Drain loop: a run that drains a staging table of N rows makes       *)
(* ceil(N / BATCH_SIZE) non-empty fetches (full batches, then the rest)    *)
(* and one empty fetch; afterwards the table is empty and every seeded row *)
(* was inserted once by the run and is in the sink as a sendgrid row.      *)
(***************************************************************************)
C1_DrainTerminates ==
  /\ \A r \in Runs :
       /\ run[r].pc \in {"sgfind", "sginsert", "sgdelete"} =>
            /\ Len(obs[r].fetches) <= (Cardinality(seeded) + BATCH_SIZE - 1) \div BATCH_SIZE
            /\ \A k \in 1..Len(obs[r].fetches) : obs[r].fetches[k] > 0
       /\ Completed(r) => staging = {}
  /\ Completed(1) =>
       /\ obs[1].fetches = DrainSizes(Cardinality(seeded), BATCH_SIZE)
       /\ \A i \in seeded :
            /\ obs[1].delivered[i] = 1
            /\ \E x \in sink : /\ DedupKey(x) = DedupKey(StagingRow(i))
                               /\ x.eventProvider = "sendgrid"

C1_Witness ==
  /\ Completed(1)
  /\ Cardinality(seeded) = 2 * BATCH_SIZE + 1
  /\ obs[1].fetches = <<BATCH_SIZE, BATCH_SIZE, 1, 0>>
  /\ staging = {}

(***************************************************************************)
(* C2. A staging row is deleted only after the insert that holds it: a row *)
(* that left the table was inserted by the run that deleted it, so a crash *)
(* between insert and delete loses nothing; a run inserts a row at most    *)
(* once, so the run after a crash delivers it once more at most; and once  *)
(* a later run completes, the sendgrid rows of the sink are, by dedup key, *)
(* those of the seeded rows, one a key.                                    *)
(***************************************************************************)
C2_DeleteAfterInsert ==
  /\ \A i \in seeded \ staging :
       /\ \E r \in Runs : obs[r].delivered[i] >= 1
       /\ DedupKey(StagingRow(i)) \in Keys(sink)
  /\ \A r \in Runs :
       /\ \A i \in 1..MaxStaging : obs[r].delivered[i] <= 1
       /\ run[r].pc = "sgdelete" =>
            \A k \in 1..Len(run[r].batch) : obs[r].delivered[run[r].batch[k]] = 1
       /\ Completed(r) =>
            LET sg == {x \in sink : x.eventProvider = "sendgrid"}
            IN /\ staging = {}
               /\ Keys(sg) = {DedupKey(StagingRow(i)) : i \in seeded}
               /\ Cardinality(sg) = Cardinality(Keys(sg))

C2_Witness ==
  /\ obs[1].aborted
  /\ Completed(2)
  /\ \E i \in seeded : obs[1].delivered[i] = 1 /\ obs[2].delivered[i] = 1
  /\ \E i \in seeded : obs[1].delivered[i] = 1 /\ obs[2].delivered[i] = 0

(***************************************************************************)
(* C3. Pagination: for the account in hand the loop goes on to the next    *)
(* page exactly while the last event of the page just fetched is newer     *)
(* than the watermark the run read; it stops at the first page that is     *)
(* not, at the latest at the empty page after the provider's last one.     *)
(***************************************************************************)
C3_Pagination ==
  \A r \in Runs :
    run[r].pc \in {"next", "insert"} =>
      LET w == obs[r].watermark
          list == Result(Account(r), w)
          n == obs[r].pagesFetched
      IN /\ n >= 1
         /\ n <= NumPages(list) + 1
         /\ \A p \in 1..(n - 1) : Newer(list, w, p)
         /\ (run[r].pc = "next") = Newer(list, w, n)
         /\ run[r].pc = "insert" => n = PagesNeeded(list, w)

\* the stub of descending pages: the loop stops at the watermark, on the
\* second of three pages
C3_Witness ==
  \E r \in Runs :
    /\ run[r].pc = "insert"
    /\ ~filtersBegin
    /\ obs[r].watermark > 0
    /\ obs[r].pagesFetched = 2
    /\ LET list == items[Account(r)]
       IN /\ NumPages(list) = 3
          /\ \A p \in 1..2 :
               list[p * PageSize].timestamp
                 > list[Min((p + 1) * PageSize, Len(list))].timestamp

(***************************************************************************)
(* C4. Normalization: when the pages of an account are fetched, its batch  *)
(* holds exactly the events of those pages that carry both audienceId and  *)
(* customerId, each once and in order; the events of a processed account   *)
(* are in the sink by key, and no sink row lacks an identifier.            *)
(***************************************************************************)
C4_Normalization ==
  /\ \A r \in Runs :
       /\ run[r].pc \in {"next", "insert"} =>
            run[r].batchToSave =
              Collected(Result(Account(r), obs[r].watermark), obs[r].pagesFetched)
       /\ \A a \in obs[r].processed :
            LET list == Result(a, obs[r].watermark)
            IN Keys(Range(Collected(list, PagesNeeded(list, obs[r].watermark))))
                 \subseteq Keys(sink)
  /\ \A x \in sink : x.audienceId # "" /\ x.customerId # ""

C4_Witness ==
  \E r \in Runs :
    /\ run[r].pc = "insert"
    /\ obs[r].pagesFetched >= 2
    /\ LET fetched == FirstPages(Result(Account(r), obs[r].watermark),
                                 obs[r].pagesFetched)
       IN /\ \E k \in 1..Len(fetched) :
               fetched[k].customerId = "" \/ fetched[k].audienceId = ""
          /\ Len(run[r].batchToSave) >= 2
          /\ Len(run[r].batchToSave) < Len(fetched)

(***************************************************************************)
(* C5. Failure isolation: a throw inside one account's try block ends that *)
(* account only. While the run is in the pull, the accounts before the one *)
(* in hand are each processed or failed; once the run is past the pull,    *)
(* every account is, and the events of each processed account are in the   *)
(* sink by key.                                                            *)
(***************************************************************************)
C5_FailureIsolation ==
  \A r \in Runs :
    /\ obs[r].processed \cap obs[r].failed = {}
    /\ run[r].pc \in {"first", "next", "insert"} =>
         obs[r].processed \cup obs[r].failed
           = 1..(run[r].offset + run[r].idx - 1)
    /\ (run[r].pc \in {"sgfind", "sginsert", "sgdelete"} \/ Completed(r)) =>
         obs[r].processed \cup obs[r].failed = Accounts
    /\ \A a \in obs[r].processed :
         LET list == Result(a, obs[r].watermark)
             rows == Collected(list, PagesNeeded(list, obs[r].watermark))
         IN \A k \in 1..Len(rows) :
              \E y \in sink : DedupKey(y) = DedupKey(rows[k])

\* the first account failed; the other of its batch and the one of the next
\* batch were processed, with events written
C5_Witness ==
  \E r \in Runs :
    /\ Completed(r)
    /\ obs[r].failed = {1}
    /\ obs[r].processed = Accounts \ {1}
    /\ NumAccounts > BATCH_SIZE
    /\ \A a \in {2, NumAccounts} :
         \E x \in sink : x.eventProvider = "mailgun" /\
            \E k \in 1..Len(items[a]) : x.messageId = items[a][k].messageId

(***************************************************************************)
(* C6. Missed work is re-covered by the next run: when an account failed   *)
(* in the first run, while another account's events were written, and the  *)
(* second run completes with every account processed, every conforming     *)
(* event of the failed account is in the sink.                             *)
(* The watermark is the maximum createdAt over the whole sink, so the      *)
(* events the other account wrote move it past the failed account's.       *)
(***************************************************************************)
C6_MissedWorkRecovered ==
  \A a \in Accounts :
    ( /\ sink0 = {}
      /\ a \in obs[1].failed
      /\ obs[1].processed # {}
      /\ ~obs[1].aborted
      /\ Completed(2)
      /\ obs[2].processed = Accounts )
    => \A k \in 1..Len(items[a]) :
         Conforming(items[a][k]) =>
           <<items[a][k].audienceId, items[a][k].customerId,
             items[a][k].messageId, items[a][k].event>> \in Keys(sink)

(***************************************************************************)
(* C7. Overlapping runs: however two executions interleave, no staging row *)
(* leaves the table without having been inserted; both executions end;     *)
(* and when both have ended the staging table is empty and the sink holds  *)
(* one logical row for each key a single run writes, and no other.         *)
(***************************************************************************)
\* the watermark a run reads from the initial sink
Watermark0 == IF sink0 = {} THEN 0 ELSE SetMax({x.createdAt : x \in sink0})

\* the keys of the sink after a single run from the initial state
SingleRunKeys ==
  Keys(sink0)
    \cup UNION {Keys(Range(Collected(Result(a, Watermark0),
                   PagesNeeded(Result(a, Watermark0), Watermark0)))) : a \in Accounts}
    \cup {DedupKey(StagingRow(i)) : i \in seeded}

BothEnded == \A r \in Concurrent : Completed(r)

C7_NoLoss ==
  \A i \in seeded \ staging :
    /\ \E r \in Concurrent : obs[r].delivered[i] >= 1
    /\ DedupKey(StagingRow(i)) \in Keys(sink)

C7_Final ==
  BothEnded =>
    /\ staging = {}
    /\ Keys(sink) = SingleRunKeys
    /\ Cardinality(sink) = Cardinality(SingleRunKeys)

C7_Overlap == [](C7_NoLoss /\ C7_Final) /\ <>BothEnded

\* the second run read its watermark after the first had inserted, and both
\* inserted one staging row
C7_Witness ==
  /\ BothEnded
  /\ obs[2].watermark > obs[1].watermark
  /\ \E i \in seeded : obs[1].delivered[i] = 1 /\ obs[2].delivered[i] = 1
  /\ obs[1].processed = Accounts
  /\ obs[2].processed = Accounts

(***************************************************************************)
(* C8. Dedup of the sink: it never holds two logical rows with one key     *)
(* (audienceId, customerId, messageId, event), and after an insert every   *)
(* inserted key has exactly one row, that of the last value inserted with  *)
(* the key, while the rows of the other keys stay.                         *)
(***************************************************************************)
\* the rows of sink s with key k
RowsOf(s, k) == {x \in s : DedupKey(x) = k}

\* s2 is s1 after the insert of values, last write winning
LastWriteWins(s1, values, s2) ==
  /\ \A k \in 1..Len(values) :
       LET last == CHOOSE j \in k..Len(values) :
                     /\ DedupKey(values[j]) = DedupKey(values[k])
                     /\ \A i \in (j + 1)..Len(values) :
                          DedupKey(values[i]) # DedupKey(values[k])
       IN RowsOf(s2, DedupKey(values[k])) = {values[last]}
  /\ \A x \in s1 : DedupKey(x) \notin Keys(Range(values)) => x \in s2
  /\ \A x \in s2 : x \in s1 \/ x \in Range(values)

C8_InsertStep ==
  \A r \in Runs :
    /\ (run[r].pc = "insert" /\ obs'[r].processed # obs[r].processed) =>
         LastWriteWins(sink, run[r].batchToSave, sink')
    /\ (run[r].pc = "sginsert" /\ run'[r].pc = "sgdelete") =>
         LastWriteWins(sink, [k \in 1..Len(run[r].batch) |->
                                TagSendgrid(run[r].batch[k])], sink')

C8_Dedup ==
  /\ [](\A x \in sink : RowsOf(sink, DedupKey(x)) = {x})
  /\ [][C8_InsertStep]_vars

\* a key was inserted twice, by one batch (at times 2 and 4) and again by
\* the next run: one row, of the later time
C8_Witness ==
  /\ \E a \in Accounts : a \in obs[1].processed /\ a \in obs[2].processed
       /\ \E j, k \in 1..Len(items[a]) :
            /\ j < k
            /\ Conforming(items[a][j])
            /\ items[a][j].messageId = items[a][k].messageId
            /\ items[a][j].event = items[a][k].event
            /\ items[a][j].audienceId = items[a][k].audienceId
            /\ items[a][j].customerId = items[a][k].customerId
            /\ items[a][j].timestamp < items[a][k].timestamp
            /\ \E x \in sink :
                 /\ x.messageId = items[a][k].messageId
                 /\ x.createdAt = items[a][k].timestamp
                 /\ RowsOf(sink, DedupKey(x)) = {x}
  /\ ~filtersBegin

(***************************************************************************)
(* C9. Frequency gating: with dueAt = lastSync + frequencyNumber x the     *)
(* unit's duration, of the integration the task carries, a task that       *)
(* evaluates the due check at time now calls the connector if and only if  *)
(* dueAt >= now, and lastSync is written only by such a task; if           *)
(* dueAt < now the task returns, and that step changes nothing but the     *)
(* task's own position. For lastSync = T and 1 DAY, the task of T + 12     *)
(* hours calls the connector and the task of T + 2 days returns.           *)
(***************************************************************************)
\* the duration of a unit, in hours
UnitHours(unit) ==
  CASE unit = "HOUR" -> 1
    [] unit = "DAY" -> 24
    [] unit = "WEEK" -> 7 * 24
    [] unit = "MONTH" -> 30 * 24
    [] unit = "YEAR" -> 365 * 24

DueAt(db) == db.lastSync + db.frequencyNumber * UnitHours(db.frequencyUnit) * 60 * 60 * 2

\* the task called the connector
Invoked(t) ==
  task[t].pc \in {"connector", "save", "done", "connectorThrew", "saveThrew"}

\* the task evaluated the due check
Checked(t) == Invoked(t) \/ task[t].pc = "returned"

C9_Gate ==
  \A t \in Tasks :
    LET db == task[t].payload.database
    IN /\ Checked(t) =>
            /\ Invoked(t) <=> DueAt(db) >= task[t].now
            /\ task[t].pc = "returned" <=> DueAt(db) < task[t].now
       /\ task[t].pc = "done" => DueAt(db) >= task[t].now
       /\ ( /\ Checked(t)
            /\ db.frequencyNumber = 1
            /\ db.frequencyUnit = "DAY" ) =>
              /\ task[t].now = db.lastSync + 12 * 60 * 60 * 2 => Invoked(t)
              /\ task[t].now = db.lastSync + 2 * 24 * 60 * 60 * 2 =>
                   task[t].pc = "returned"

C9_ReturnStep ==
  \A t \in Tasks :
    (task[t].pc = "queued" /\ task'[t].pc = "returned") =>
      /\ database' = database
      /\ clock' = clock
      /\ cronVars' = cronVars
      /\ task' = [task EXCEPT ![t].pc = "returned", ![t].now = clock]

C9_FrequencyGating == [](C9_Gate) /\ [][C9_ReturnStep]_vars

\* lastSync = T0, 1 DAY: the task of T0 + 12 hours synced and wrote, the
\* task of T0 + 2 days, queued with the same integration, returned
C9_Witness ==
  \E t1, t2 \in Tasks :
    /\ task[t1].pc = "done"
    /\ task[t1].now = T0 + 12 * hourMs
    /\ task[t2].pc = "returned"
    /\ task[t2].now = T0 + 2 * dayMs
    /\ \A t \in {t1, t2} :
         /\ task[t].payload.database.lastSync = T0
         /\ task[t].payload.database.frequencyNumber = 1
         /\ task[t].payload.database.frequencyUnit = "DAY"
    /\ database.lastSync = T0 + 12 * hourMs

(***************************************************************************)
(* C10. lastSync moves only after a successful sync and only forward:      *)
(* the row's lastSync differs from the configured one only if a task whose *)
(* connector returned wrote it; every write stored a time later than the   *)
(* lastSync it replaced; and no other column of the row ever differs from  *)
(* the configured row.                                                     *)
(* save stores the time read when it was called, whatever the row holds by *)
(* then: within one second, or after another worker's later write, the     *)
(* stored time is not later than the one replaced.                         *)
(***************************************************************************)
C10_LastSyncForward ==
  /\ database.lastSync # database0.lastSync =>
       \E t \in Tasks : task[t].pc = "done"
  /\ \A t \in Tasks :
       task[t].pc = "done" => task[t].stamp > task[t].before
  /\ database = [database0 EXCEPT !.lastSync = database.lastSync]

(***************************************************************************)
(* C11. A malformed task fails fast: a job whose payload has no            *)
(* integration, or an integration without database, ends with the throw    *)
(* of line 59 at its first step: that step changes nothing but the job's   *)
(* position, the job never calls a connector, saves or creates no          *)
(* CustomerRecord and never writes lastSync.                               *)
(***************************************************************************)
\* the payload of the job lacks the integration or its database
Malformed(t) == task[t].payload.kind \in {"noIntegration", "noDatabase"}

C11_NothingDone ==
  \A t \in Tasks :
    (Malformed(t) /\ task[t].pc \notin {"none", "queued"}) =>
      /\ task[t].pc = "invalid"
      /\ conn[t] = NoConn
      /\ task[t].now = NaN
      /\ task[t].stamp = NaN
      /\ task[t].before = NaN

C11_FirstStep ==
  \A t \in Tasks :
    (Malformed(t) /\ task[t].pc = "queued" /\ task'[t] # task[t]) =>
      /\ task' = [task EXCEPT ![t].pc = "invalid"]
      /\ customers' = customers
      /\ database' = database
      /\ conn' = conn

C11_MalformedFailsFast == [](C11_NothingDone) /\ [][C11_FirstStep]_vars

\* a job without database threw while the other job synced rows and wrote
\* lastSync
C11_Witness ==
  \E t1, t2 \in Tasks :
    /\ task[t1].pc = "invalid"
    /\ task[t1].payload.kind = "noDatabase"
    /\ task[t2].pc = "done"
    /\ Len(conn[t2].wrote) > 0
    /\ customers # << >>

(***************************************************************************)
(* C12. Warehouse merge: for a row with identifier X the lookup finds a    *)
(* record exactly if the store holds one with (databricksId = X, ownerId = *)
(* the owner); if none is found the sync adds exactly one record, with     *)
(* that pair and the row's columns; if one is found the sync overwrites,   *)
(* in that record, exactly the columns the row has, and leaves its other   *)
(* fields and every other record as they are. Nothing but such a write,    *)
(* of a row with an identifier, changes the store.                         *)
(***************************************************************************)
\* the records of the store with the pair
WithKey(store, databricksId, ownerId) ==
  {n \in 1..Len(store) :
     store[n].databricksId = databricksId /\ store[n].ownerId = ownerId}

\* job t saves or creates the row in hand in this step
Writes(t) == conn[t].pc = "write" /\ conn'[t].wrote # conn[t].wrote

C12_LookupStep ==
  \A t \in Tasks :
    (conn[t].pc = "findOne" /\ conn'[t].pc = "write") =>
      LET row == Customer(conn[t])
          n == conn'[t].found
      IN /\ n = 0 <=> WithKey(customers, row.id, Owner) = {}
         /\ n > 0 => n \in WithKey(customers, row.id, Owner)
         /\ customers' = customers

C12_WriteStep ==
  \A t \in Tasks :
    Writes(t) =>
      LET row == Customer(conn[t])
          n == conn[t].found
      IN /\ row.id # ""
         /\ n = 0 =>
              /\ Len(customers') = Len(customers) + 1
              /\ \A m \in 1..Len(customers) : customers'[m] = customers[m]
              /\ LET new == customers'[Len(customers')]
                 IN /\ new.databricksId = row.id
                    /\ new.ownerId = Owner
                    /\ \A f \in Fields :
                         new.cols[f] = IF f \in {"email", "name"}
                                       THEN row.cols[f] ELSE "absent"
         /\ n > 0 =>
              /\ Len(customers') = Len(customers)
              /\ \A m \in 1..Len(customers) : m # n => customers'[m] = customers[m]
              /\ customers'[n].databricksId = customers[n].databricksId
              /\ customers'[n].ownerId = customers[n].ownerId
              /\ \A f \in Fields :
                   customers'[n].cols[f] =
                     IF f \in {"email", "name"} /\ row.cols[f] # "absent"
                     THEN row.cols[f] ELSE customers[n].cols[f]

C12_Frame == customers' # customers => \E t \in Tasks : Writes(t)

C12_WarehouseMerge ==
  [][C12_LookupStep /\ C12_WriteStep /\ C12_Frame]_vars

\* one job alone: the row (x, e1) and then the row (x, n1) were merged into
\* the owner's record, whose phone stayed, as did the other owner's record;
\* the row without id in between left no trace
C12_Witness ==
  \E t \in Tasks :
    /\ conn[t].pc = "returned"
    /\ Len(conn[t].wrote) = 2
    /\ \A q \in Tasks : q # t => conn[q] = NoConn
    /\ Len(customers) = 3
    /\ customers[1] = CustomerRecord("x", OtherOwner, "e0", "n0", "p0")
    /\ customers[2] = CustomerRecord("x", Owner, "e1", "n1", "p0")

(***************************************************************************)
(* C13. No lost updates on a shared record: when two jobs have synced rows *)
(* of one identifier and both connector calls returned, the store holds a  *)
(* record of that identifier and owner with the updates of both: each      *)
(* column that only one of the two wrote has the value that job wrote      *)
(* last.                                                                   *)
(* Lookup and write are two awaits with nothing between them that keeps    *)
(* another job out: two jobs that both find no record both create one, and *)
(* neither record has the columns of both.                                 *)
(***************************************************************************)
\* job t wrote column c of the identifier
WroteColumn(t, id, c) ==
  \E k \in 1..Len(conn[t].wrote) :
    conn[t].wrote[k].id = id /\ conn[t].wrote[k].cols[c] # Absent

\* the value job t wrote last to column c of the identifier
LastWritten(t, id, c) ==
  LET k == CHOOSE j \in 1..Len(conn[t].wrote) :
             /\ conn[t].wrote[j].id = id /\ conn[t].wrote[j].cols[c] # Absent
             /\ \A m \in (j + 1)..Len(conn[t].wrote) :
                  ~(conn[t].wrote[m].id = id /\ conn[t].wrote[m].cols[c] # Absent)
  IN conn[t].wrote[k].cols[c]

\* job t wrote a row of the identifier
WroteId(t, id) == \E k \in 1..Len(conn[t].wrote) : conn[t].wrote[k].id = id

C13_NoLostUpdate ==
  \A t1, t2 \in Tasks :
    (t1 # t2 /\ conn[t1].pc = "returned" /\ conn[t2].pc = "returned") =>
      \A id \in {"x", "y"} :
        (WroteId(t1, id) /\ WroteId(t2, id)) =>
          \E n \in WithKey(customers, id, Owner) :
            \A c \in Columns :
              /\ (WroteColumn(t1, id, c) /\ ~WroteColumn(t2, id, c)) =>
                   customers[n].cols[c] = LastWritten(t1, id, c)
              /\ (WroteColumn(t2, id, c) /\ ~WroteColumn(t1, id, c)) =>
                   customers[n].cols[c] = LastWritten(t2, id, c)

(***************************************************************************)
(* C14. Cleanup of the warehouse resources: when a call of                 *)
(* handleDatabricksSync that opened a session and a cursor has returned or *)
(* thrown, the cursor and the session are closed.                          *)
(* The function closes the cursor on the path without a throw only, and    *)
(* the session on none.                                                    *)
(***************************************************************************)
C14_Cleanup ==
  \A t \in Tasks :
    ( /\ conn[t].pc \in {"returned", "threw"}
      /\ conn[t].session # "none"
      /\ conn[t].cursor # "none" ) =>
        /\ conn[t].cursor = "closed"
        /\ conn[t].session = "closed"

(***************************************************************************)
(* C15: the schema discovery is an idempotent upsert keyed on the field    *)
(* name. After any number of runs, overlapping or not, the CustomerKeys    *)
(* collection holds at most one document per key; and when a run has ended *)
(* normally and a second run begins after it and ends normally, the        *)
(* customers not having changed from the beginning of the first to the end *)
(* of the second, the collection after the second run is the collection    *)
(* after the first.                                                        *)
(***************************************************************************)
C15_OnePerKey ==
  \A n, m \in 1..Len(keyStore) : keyStore[n].key = keyStore[m].key => n = m

\* run j ended normally, run q began after that and ended normally, over the
\* same customers
RanTwice(j, q) ==
  /\ kjob[j].pc = "done"
  /\ kjob[q].pc = "done"
  /\ j \in kjob[q].after
  /\ docs.version = 0

C15_IdempotentUpsert ==
  /\ C15_OnePerKey
  /\ \A j, q \in KeyRuns : RanTwice(j, q) => kjob[q].result = kjob[j].result

\* two runs over customers with several keys, the second run after the first,
\* the collection holding documents of other types before
C15_Witness ==
  /\ RanTwice(1, 2)
  /\ Len(kjob[2].result) >= 3
  /\ \E n \in 1..Len(keyStore) : keyStore[n] = CustomerKey("nick", "String", FALSE)

(***************************************************************************)
(* C16: the representative value of a field is the first of its values, in *)
(* the order the customers are scanned, that is not the empty string, not  *)
(* undefined and not null; the type and isArray a run stores for the field *)
(* are those of that value alone. A run that collected no such value of a  *)
(* field neither writes nor changes the field's document. The keys __v,    *)
(* _id, audiences and ownerId never have a document.                       *)
(***************************************************************************)
\* the values of the key in the customers, in scan order
SamplesOf(key) ==
  LET Present(obj) == obj[key] # NoKey
      found == SelectSeq(docs.list, Present)
  IN [n \in 1..Len(found) |-> found[n][key]]

Usable(v) ==
  /\ v.kind \notin {"undefined", "null"}
  /\ ~(v.kind = "String" /\ v.text = "")

HasUsable(samples) == \E n \in 1..Len(samples) : Usable(samples[n])

Representative(samples) ==
  samples[CHOOSE n \in 1..Len(samples) :
            Usable(samples[n]) /\ \A m \in 1..(n - 1) : ~Usable(samples[m])]

\* the type and isArray of one value
TypeOf(v) ==
  CASE v.kind = "Array" -> [type |-> v.elem, isArray |-> TRUE]
    [] v.kind = "String" /\ v.text = "email" -> [type |-> "Email", isArray |-> FALSE]
    [] v.kind = "String" /\ v.text = "date" -> [type |-> "Date", isArray |-> FALSE]
    [] OTHER -> [type |-> v.kind, isArray |-> FALSE]

\* the documents of the key in a collection
KeysOf(store, key) == SelectSeq(store, LAMBDA d : d.key = key)

\* run j stores the type of a key in this step
Stores(j, key) ==
  /\ kjob[j].pc = "updateOne"
  /\ kjob[j].keys.order[kjob[j].k] = key
  /\ kjob'[j].pc \in {"updateOne", "done"}
  /\ kjob'[j] # kjob[j]

\* what is stored is the type of the representative value (the customers
\* being those the run scanned)
C16_StoreStep ==
  \A j \in KeyRuns : \A key \in AllKeys :
    (Stores(j, key) /\ docs.version = kjob[j].version) =>
      /\ HasUsable(SamplesOf(key))
      /\ LET t == TypeOf(Representative(SamplesOf(key)))
         IN KeysOf(keyStore', key) = <<CustomerKey(key, t.type, t.isArray)>>

\* the document of a key changes only when a run that collected a usable
\* value of the key stores its type
C16_Frame ==
  \A key \in AllKeys :
    KeysOf(keyStore', key) # KeysOf(keyStore, key) =>
      \E j \in KeyRuns : Stores(j, key) /\ HasUsable(kjob[j].keys.samples[key])

C16_NoStructural ==
  \A n \in 1..Len(keyStore) : keyStore[n].key \notin {"__v", "_id", "audiences", "ownerId"}

C16_Representative ==
  /\ [](C16_NoStructural)
  /\ [][C16_StoreStep /\ C16_Frame]_vars

\* a run has stored Email for email, whose first value is the empty string
\* and whose last is a plain string, and has ended without a document for
\* nick, whose values are the empty string, undefined and null
C16_Witness ==
  /\ docs = [list |-> DocSets[1], version |-> 0]
  /\ kjob[1].pc = "done"
  /\ KeysOf(keyStore, "email") = <<CustomerKey("email", "Email", FALSE)>>
  /\ KeysOf(keyStore, "nick") = << >>
  /\ Len(kjob[1].keys.samples["nick"]) = 3

(***************************************************************************)
(* C17: when the sink holds no event, the watermark a run of               *)
(* handleClickHouseCron uses is the floor 2000-10-10, and its first query  *)
(* begins one second after the floor.                                      *)
(* Refuted: the operand left of || at lines 167-171 is a Date object,      *)
(* which is truthy whatever its time value, so the floor is never taken;   *)
(* over an empty sink the watermark is the time the maximum of no rows     *)
(* reads as, 1970-01-01.                                                   *)
(***************************************************************************)
C17_WatermarkDefault ==
  \A r \in Runs :
    (obs[r].watermark # NaN /\ sink = {}) =>
      /\ obs[r].watermark = FloorSeconds
      /\ run[r].pc = "first" => BeginOf(run[r].lastEventFetch) = FloorSeconds + 1

(***************************************************************************)
(* C18: the two sub-flows of handleClickHouseCron are independent: in      *)
(* every run the staging table is drained however the pull from the        *)
(* provider ended, so a run that has ended has fetched from the staging    *)
(* table, unless it was the drain itself that threw.                       *)
(* Refuted: reading the watermark, counting the accounts and finding a     *)
(* batch of accounts are inside the one try block that also holds the      *)
(* drain (lines 163-286); when one of them throws the handler ends in the  *)
(* catch of line 284 and the staging table is not read.                    *)
(***************************************************************************)
\* the run has gone through every account, each inserted or caught
PullEnded(r) == obs[r].processed \cup obs[r].failed = Accounts

C18_DrainRegardless ==
  \A r \in Runs :
    run[r].pc = "done" =>
      \/ obs[r].fetches # << >>
      \/ obs[r].aborted /\ PullEnded(r)

(***************************************************************************)
(* C19: the pair (databricksId, ownerId) is unique in the customer store:  *)
(* after any interleaving of executions of handleDatabricksSync, two of    *)
(* them running at once for one integration included, and whatever rows    *)
(* the result set repeats, no two customers have the same pair.            *)
(* Refuted: findOne (lines 101-103) and create (lines 113-118) are two     *)
(* awaits, and nothing keeps another job from its own findOne between      *)
(* them; two jobs that both find no customer of an identifier both create  *)
(* one.                                                                    *)
(***************************************************************************)
C19_UniqueCorrelationKey ==
  \A id \in {"x", "y"} : \A owner \in {Owner, OtherOwner} :
    Cardinality(WithKey(customers, id, owner)) <= 1

(***************************************************************************)
(* C20: an integration can always be synced again: no reachable state is   *)
(* one from which every task queued for the integration from then on       *)
(* returns at the due check, lastSync staying as it is for ever.           *)
(* Refuted: line 66 returns when lastSync + period is before now, which is *)
(* when the sync is due, and syncs while now has not passed it. Once the   *)
(* clock has passed lastSync + period with no job between due check and    *)
(* save, every job returns, lastSync is never written again, and the clock *)
(* only moves on.                                                          *)
(***************************************************************************)
\* the period of the row is over, no job is past the due check, and no
\* queued job has a payload that passes it
Frozen ==
  /\ DueAt(database) < clock
  /\ \A t \in Tasks :
       /\ task[t].pc \notin {"connector", "save"}
       /\ task[t].pc = "queued" => DueAt(task[t].payload.database) < clock

C20_SyncableAgain == ~Frozen

\* a frozen state is followed by frozen states only, with the same row
C20_FrozenForEver == [][Frozen => (Frozen' /\ database' = database)]_vars

====
